---- MODULE Spec2Model ----
(***************************************************************************)
(* The session-slot registry of cuttle-ai/websockets: the AppContext       *)
(* goroutine of routes/ratelimiter.go, which owns the id pool, and its     *)
(* callers in routes/route.go (Route.ServeHTTP, onConnect, onDisconnect)   *)
(* and routes/ratelimiter.go (CleanUpCheck).                               *)
(*                                                                         *)
(* Every caller sends with `go SendRequest(ch, req)` on an unbuffered      *)
(* channel: the send completes in the step in which the registry receives, *)
(* and the registry receives the blocked sends in any order. A request of  *)
(* ServeHTTP or CleanUpCheck is fixed when it is built, so its send and    *)
(* its receive are one step; the requests of a connection are in flight    *)
(* while the connection is at "fetching" or "closing".                     *)
(* A nil pointer dereference or a method call on a nil interface panics;   *)
(* an unrecovered panic in a goroutine ends the process (process =         *)
(* "down"). The registry goroutine has no recover; whether the streaming   *)
(* transport recovers a panic of a callback is not in this repository, so  *)
(* a panicking callback either ends the process or is recovered.           *)
(***************************************************************************)
EXTENDS Integers, Sequences, FiniteSets, TLC

\* ---------------------------------------------------------------- bounds

\* config.MaxRequests, the session ceiling N (MAX_REQUESTS in the environment).
MaxRequests == 2

\* config.MaxRequestLife in clock ticks of the model (MAX_REQUEST_LIFE).
MaxRequestLife == 1

\* The clock of the model runs from 0 to MaxTime: a session acquired at 0
\* is followed to the first instant at which it has timed out.
MaxTime == MaxRequestLife + 1

\* A user's list of connections in userMap is followed up to this length.
MaxUserConns == 2

\* The authenticated users (Session.User.ID).
Users == {1, 2}

\* The streaming connections the transport hands to onConnect, one object each.
Conns == {"c1", "c2"}

\* ---------------------------------------------------------------- values

\* The nil socketio.Conn.
Nil == "nil"

\* The nil *config.AppContext: reading a field of it panics.
NilAppContext == [IsNil |-> TRUE, ID |-> 0, User |-> 0]

\* RequestType
Get == "Get"
Finished == "Finished"
CleanUp == "CleanUp"
Fetch == "Fetch"

\* config.NewAppContext(log.NewLogger(id), id) with its Session set: the
\* fields the registry reads are the ID and Session.User.ID.
NewAppContext(id, user) == [IsNil |-> FALSE, ID |-> id, User |-> user]

\* AppContextRequest: one flat struct for every request type. A field a
\* caller leaves out has Go's zero value (0, nil, false; user 0 is no user).
AppContextRequest(type, appCtx, user, id, ws) ==
    [Type |-> type, AppContext |-> appCtx, Exhausted |-> FALSE,
     User |-> user, ID |-> id, Ws |-> ws]

\* No message was sent on any Out channel yet.
NoReply == AppContextRequest("none", NilAppContext, 0, 0, Nil)

\* The remote-supplied values of the cuttle-ai-context-id handshake header,
\* as sequences of characters.
HandshakeHeaders ==
    { <<>>, <<"x">>, <<"0">>, <<"1">>, <<"3">>, <<"0", "1">>, <<"1", "x">> }

Digit(ch) ==
    CASE ch = "0" -> 0 [] ch = "1" -> 1 [] ch = "2" -> 2 [] ch = "3" -> 3
      [] ch = "4" -> 4 [] ch = "5" -> 5 [] ch = "6" -> 6 [] ch = "7" -> 7
      [] ch = "8" -> 8 [] ch = "9" -> 9
      [] OTHER -> -1

RECURSIVE AtoiFrom(_, _)
\* The decimal value of the digits h read after the value acc, or -1 when
\* a character is no digit.
AtoiFrom(h, acc) ==
    IF h = <<>> THEN acc
    ELSE IF Digit(Head(h)) < 0 THEN -1
    ELSE AtoiFrom(Tail(h), 10 * acc + Digit(Head(h)))

\* Atoi with the empty header read as 0.
AtoiEmptyIsZero(h) ==
    IF AtoiFrom(h, 0) < 0
    THEN [ok |-> FALSE, val |-> 0]
    ELSE [ok |-> TRUE, val |-> AtoiFrom(h, 0)]

\* strconv.Atoi on a header without a sign: [ok, val].
Atoi(h) ==
    IF h = <<>> \/ AtoiFrom(h, 0) < 0
    THEN [ok |-> FALSE, val |-> 0]
    ELSE [ok |-> TRUE, val |-> AtoiFrom(h, 0)]

\* The decimal digit d as a character.
DigitChar(d) ==
    CASE d = 0 -> "0" [] d = 1 -> "1" [] d = 2 -> "2" [] d = 3 -> "3"
      [] d = 4 -> "4" [] d = 5 -> "5" [] d = 6 -> "6" [] d = 7 -> "7"
      [] d = 8 -> "8" [] OTHER -> "9"

RECURSIVE Itoa(_)
\* strconv.Itoa on a value >= 0: its decimal digits.
Itoa(n) ==
    IF n < 10 THEN <<DigitChar(n)>>
    ELSE Itoa(n \div 10) \o <<DigitChar(n % 10)>>

\* The patterns of the routes registered with AddRoutes.
Routes == {"/cuttle-websockets/", "/notification/send"}

\* http.StatusTooManyRequests
StatusTooManyRequests == 429

\* context.WithValue(ctx, AppContextKey, resCtx.AppContext.ID): the value
\* kept under AppContextKey is the id, an int.
WithValue(id) == [type |-> "int", val |-> id]

\* ctx.Value(AppContextKey).(*config.AppContext): the one-result type
\* assertion panics unless the value is a *config.AppContext.
IsAppContext(v) == v.type = "*config.AppContext"

\* response.Message{Message: ...} of SendNotification
SendingNotifications == "sending notitifications"

\* Nothing was written to a ResponseWriter.
NoBody == "none"

\* What a run of r.HandlerFunc(c, res, req) leaves, for the value v kept
\* under AppContextKey. WebSockets and SendNotification both begin with the
\* type assertion on v; a panic of a handler is recovered by net/http,
\* which ends the request without a response. Past the assertion WebSockets
\* hands the request to the transport, and SendNotification waits on Out
\* for the reply to its FetchWs request, which no case of the registry's
\* switch handles. No event is emitted before that reply.
HandlerFunc(route, v) ==
    IF ~IsAppContext(v)
    THEN [handler |-> "panicked", body |-> NoBody, emitted |-> {}]
    ELSE IF route = "/notification/send"
         THEN [handler |-> "waiting", body |-> NoBody, emitted |-> {}]
         ELSE [handler |-> "transport", body |-> NoBody, emitted |-> {}]

\* ServeHTTPResponse without the return that follows the 429 error.
ServeHTTPFallsThrough(route, r) ==
    LET h == HandlerFunc(route, WithValue(r.AppContext.ID)) IN
    [route |-> route, user |-> r.User,
     status |-> IF r.Exhausted THEN StatusTooManyRequests ELSE 0,
     header |-> Itoa(r.AppContext.ID), handler |-> h.handler,
     body |-> h.body, emitted |-> h.emitted]

\* Route.ServeHTTP from its receive of r on Out, for an authenticated user.
\* Exhausted: the 429 error is written and ServeHTTP returns. Otherwise the
\* id goes under AppContextKey and into the cuttle-ai-context-id header and
\* Exec runs the handler. No request is sent to the registry after that.
ServeHTTPResponse(route, r) ==
    IF r.Exhausted
    THEN [route |-> route, user |-> r.User, status |-> StatusTooManyRequests,
          header |-> <<>>, handler |-> "not invoked", body |-> "exhausted",
          emitted |-> {}]
    ELSE LET h == HandlerFunc(route, WithValue(r.AppContext.ID)) IN
         [route |-> route, user |-> r.User, status |-> 0,
          header |-> Itoa(r.AppContext.ID), handler |-> h.handler,
          body |-> h.body, emitted |-> h.emitted]

\* No request was served yet.
NoResponse ==
    [route |-> "none", user |-> 0, status |-> 0, header |-> <<>>,
     handler |-> "not invoked", body |-> NoBody, emitted |-> {}]

\* ----------------------------------------------------------------- state

VARIABLES
    process,           \* "up", or "down" after an unrecovered panic
    actor,             \* the AppContext goroutine: "running", "returned", "panicked"
    freeMaps,          \* []int: the free list
    authenticatedMap,  \* map[int]time.Time: slot id -> acquisition time
    appCtxs,           \* map[int]*config.AppContext: slot id -> session
    userMap,           \* map[uint][]socketio.Conn: user -> connections
    now,               \* time.Now()
    resCtx,            \* the last reply to a Get, as ServeHTTP receives it on Out
    res,               \* the outcome of the last Route.ServeHTTP on its ResponseWriter
    conn               \* per connection: its callbacks' position, request, reply, context

vars == <<process, actor, freeMaps, authenticatedMap, appCtxs, userMap, now, resCtx, res, conn>>

\* make([]int, n): n zero values.
MakeInts(n) == [i \in 1..n |-> 0]

\* The id pool as AppContext builds it before its loop: make([]int,
\* MaxRequests) followed by append of 1..MaxRequests.
InitFreeMaps == MakeInts(MaxRequests) \o [i \in 1..MaxRequests |-> i]

\* A connection the transport has not yet handed to onConnect: no request
\* built, nothing received on Out, no context set.
NewConn == [pc |-> "new", req |-> NoReply, out |-> NoReply, ctx |-> NilAppContext]

Init ==
    /\ process = "up"
    /\ actor = "running"
    /\ freeMaps = InitFreeMaps
    /\ authenticatedMap = << >>
    /\ appCtxs = << >>
    /\ userMap = << >>
    /\ now = 0
    /\ resCtx = NoReply
    /\ res = NoResponse
    /\ conn = [c \in Conns |-> NewConn]

\* ------------------------------------------------------------- map helpers

\* m[k] = v of a Go map.
MapSet(m, k, v) == [x \in DOMAIN m \cup {k} |-> IF x = k THEN v ELSE m[x]]

\* A delete that empties the map.
MapClear(m, k) == [x \in {} |-> m[x]]

\* delete(m, k) of a Go map.
MapDelete(m, k) == [x \in DOMAIN m \ {k} |-> m[x]]

\* An unrecovered panic ends the process and every goroutine with it.
ProcessAlive == process = "up"

\* --------------------------------------------------------------- callers

\* The request Route.ServeHTTP builds for an authenticated user: a Get
\* carrying the session, with no Ws.
ServeHTTPRequest(u) == AppContextRequest(Get, NilAppContext, u, 0, Nil)

\* The request CleanUpCheck builds after its sleep.
CleanUpCheckRequest == AppContextRequest(CleanUp, NilAppContext, 0, 0, Nil)

\* time passes
Tick ==
    /\ ProcessAlive
    /\ now < MaxTime
    /\ now' = now + 1
    /\ UNCHANGED <<process, actor, freeMaps, authenticatedMap, appCtxs, userMap, resCtx, res, conn>>

\* onConnect up to its send: a missing or unparsable header returns an
\* error, any other sends a Fetch with the parsed id and the connection.
OnConnect(c, h) ==
    /\ ProcessAlive
    /\ conn[c].pc = "new"
    /\ IF ~Atoi(h).ok
       THEN conn' = [conn EXCEPT ![c].pc = "rejected"]
       ELSE conn' = [conn EXCEPT ![c].pc = "fetching",
                                 ![c].req = AppContextRequest(Fetch, NilAppContext, 0, Atoi(h).val, c)]
    /\ UNCHANGED <<process, actor, freeMaps, authenticatedMap, appCtxs, userMap, now, resCtx, res>>

\* onConnect from its receive on Out: conn.SetContext(resCtx.AppContext),
\* whatever the reply says. The log line then reads
\* resCtx.Session.User.ID; no Fetch request or reply sets Session, so User
\* is nil there and the read panics.
OnConnectReply(c) ==
    /\ ProcessAlive
    /\ conn[c].pc = "replied"
    /\ conn' = [conn EXCEPT ![c] = [NewConn EXCEPT !.pc = "connected",
                                                   !.ctx = conn[c].out.AppContext]]
    /\ process' \in {"up", "down"}
    /\ UNCHANGED <<actor, freeMaps, authenticatedMap, appCtxs, userMap, now, resCtx, res>>

\* onDisconnect: a Finished with the connection's context and the
\* connection is sent by its own goroutine; the log line then reads
\* appCtx.Log, which panics on a nil context.
OnDisconnect(c) ==
    /\ ProcessAlive
    /\ conn[c].pc = "connected"
    /\ conn' = [conn EXCEPT ![c] = [NewConn EXCEPT !.pc = "closing",
                                                   !.req = AppContextRequest(Finished, conn[c].ctx, 0, 0, c)]]
    /\ IF conn[c].ctx.IsNil THEN process' \in {"up", "down"} ELSE UNCHANGED process
    /\ UNCHANGED <<actor, freeMaps, authenticatedMap, appCtxs, userMap, now, resCtx, res>>

\* -------------------------------------------------------------- registry

\* len(freeMaps) == 0
PoolExhausted(free) == Len(free) = 0

\* uCo, ok := userMap[user]; if !ok { uCo = []socketio.Conn{} };
\* uCo = append(uCo, ws); userMap[user] = uCo
AddUserConn(um, user, ws) ==
    MapSet(um, user, (IF user \in DOMAIN um THEN um[user] ELSE <<>>) \o <<ws>>)

\* The user's list in um is shorter than n.
UserConnsBelow(um, user, n) == user \in DOMAIN um => Len(um[user]) < n

\* id := freeMaps[0]
NextID(free) == Head(free)

\* case Get. On an empty free list the reply says Exhausted and the
\* goroutine returns. Otherwise the head of the free list is issued (while
\* the user's list is below the length the model follows).
AppContextGet(req) ==
    /\ ProcessAlive
    /\ actor = "running"
    /\ req.Type = Get
    /\ IF PoolExhausted(freeMaps)
       THEN /\ resCtx' = [req EXCEPT !.Exhausted = TRUE]
            /\ actor' = "returned"
            /\ UNCHANGED <<freeMaps, authenticatedMap, appCtxs, userMap>>
       ELSE LET id == NextID(freeMaps) IN
            /\ UserConnsBelow(userMap, req.User, MaxUserConns)
            /\ freeMaps' = Tail(freeMaps)
            /\ authenticatedMap' = MapSet(authenticatedMap, id, now)
            /\ appCtxs' = MapSet(appCtxs, id, NewAppContext(id, req.User))
            /\ userMap' = AddUserConn(userMap, req.User, req.Ws)
            /\ resCtx' = [req EXCEPT !.Exhausted = FALSE,
                                     !.AppContext = NewAppContext(id, req.User)]
            /\ UNCHANGED actor
    /\ UNCHANGED <<process, now, conn>>

\* Route.ServeHTTP of an authenticated user on a route: the Get, the
\* registry's reply, and what ServeHTTP does with it.
ServeHTTP(route, u) ==
    /\ AppContextGet(ServeHTTPRequest(u))
    /\ res' = ServeHTTPResponse(route, resCtx')

\* appCtx, ok := appCtxs[req.ID]: the session, or nil.
FetchLookup(ctxs, id) == IF id \in DOMAIN ctxs THEN ctxs[id] ELSE NilAppContext

\* The reply of case Fetch: the session found under req.ID, or Exhausted
\* when there is none.
FetchReply(ctxs, req) ==
    [req EXCEPT !.Exhausted = FetchLookup(ctxs, req.ID).IsNil,
                !.AppContext = FetchLookup(ctxs, req.ID)]

\* case Fetch, for the request of connection c: the registry's maps are
\* only read, and the reply goes to onConnect's Out channel.
AppContextFetch(c) ==
    /\ ProcessAlive
    /\ actor = "running"
    /\ conn[c].pc = "fetching"
    /\ conn[c].req.Type = Fetch
    /\ conn' = [conn EXCEPT ![c] = [NewConn EXCEPT !.pc = "replied",
                                                   !.out = FetchReply(appCtxs, conn[c].req)]]
    /\ UNCHANGED <<process, actor, freeMaps, authenticatedMap, appCtxs, userMap, now, resCtx, res>>

RECURSIVE ScanConns(_, _, _)
\* The loop over conns of case Finished from index i: conns[i].ID() and
\* req.Ws.ID() panic on a nil connection; the first entry with the id of
\* ws is cut out and the loop ends.
ScanConns(conns, ws, i) ==
    IF i > Len(conns) THEN [panic |-> FALSE, conns |-> conns]
    ELSE IF conns[i] = Nil \/ ws = Nil THEN [panic |-> TRUE, conns |-> conns]
    ELSE IF conns[i] = ws
         THEN [panic |-> FALSE,
               conns |-> SubSeq(conns, 1, i - 1) \o SubSeq(conns, i + 1, Len(conns))]
    ELSE ScanConns(conns, ws, i + 1)

\* freeMaps = append(freeMaps, req.AppContext.ID)
ReturnID(free, id) == Append(free, id)

\* case Finished, for the request of connection c. req.AppContext.ID on a
\* nil context panics at once. Otherwise the id leaves both tables and is
\* appended to the free list; with no entry for the user the handler logs
\* and continues; else the connection is looked for in the user's list.
AppContextFinished(c) ==
    /\ ProcessAlive
    /\ actor = "running"
    /\ conn[c].pc = "closing"
    /\ conn[c].req.Type = Finished
    /\ conn' = [conn EXCEPT ![c] = [NewConn EXCEPT !.pc = "closed"]]
    /\ LET req == conn[c].req IN
       IF req.AppContext.IsNil
       THEN /\ actor' = "panicked"
            /\ process' = "down"
            /\ UNCHANGED <<freeMaps, authenticatedMap, appCtxs, userMap>>
       ELSE LET id == req.AppContext.ID
                user == req.AppContext.User
            IN
            /\ authenticatedMap' = MapDelete(authenticatedMap, id)
            /\ appCtxs' = MapDelete(appCtxs, id)
            /\ freeMaps' = ReturnID(freeMaps, id)
            /\ IF user \notin DOMAIN userMap
               THEN UNCHANGED <<process, actor, userMap>>
               ELSE LET scan == ScanConns(userMap[user], req.Ws, 1) IN
                    IF scan.panic
                    THEN /\ actor' = "panicked"
                         /\ process' = "down"
                         /\ UNCHANGED userMap
                    ELSE /\ userMap' = MapSet(userMap, user, scan.conns)
                         /\ UNCHANGED <<process, actor>>
    /\ UNCHANGED <<now, resCtx, res>>

\* v.Add(maxLife).Before(n)
TimedOut(v, n) == v + MaxRequestLife < n

\* The orders in which `for k, v := range authenticatedMap` can visit the
\* keys S: Go leaves the iteration order of a map unspecified.
RangeOrders(S) ==
    { s \in [1..Cardinality(S) -> S] : \A i, j \in 1..Cardinality(S) : s[i] = s[j] => i = j }

\* case CleanUp: every id whose acquisition time plus MaxRequestLife is
\* before now leaves both tables and is appended to the free list.
AppContextCleanUp(req) ==
    /\ ProcessAlive
    /\ actor = "running"
    /\ req.Type = CleanUp
    /\ LET old == { k \in DOMAIN authenticatedMap : TimedOut(authenticatedMap[k], now) } IN
       /\ authenticatedMap' = [k \in DOMAIN authenticatedMap \ old |-> authenticatedMap[k]]
       /\ appCtxs' = [k \in DOMAIN appCtxs \ old |-> appCtxs[k]]
       /\ \E toBeAdded \in RangeOrders(old) : freeMaps' = freeMaps \o toBeAdded
    /\ UNCHANGED <<process, actor, userMap, now, resCtx, res, conn>>

\* ------------------------------------------------------------ specification

Next ==
    \/ Tick
    \/ \E c \in Conns, h \in HandshakeHeaders : OnConnect(c, h)
    \/ \E c \in Conns : OnConnectReply(c)
    \/ \E c \in Conns : OnDisconnect(c)
    \/ \E r \in Routes, u \in Users : ServeHTTP(r, u)
    \/ \E c \in Conns : AppContextFetch(c)
    \/ \E c \in Conns : AppContextFinished(c)
    \/ AppContextCleanUp(CleanUpCheckRequest)

Spec == Init /\ [][Next]_vars

\* ------------------------------------------------------------------ views

\* The values held in a sequence.
Range(seq) == { seq[i] : i \in 1..Len(seq) }

\* No value is held twice in a sequence.
NoDuplicates(seq) == \A i, j \in 1..Len(seq) : seq[i] = seq[j] => i = j

\* How often v is held in a sequence.
Count(seq, v) == Cardinality({ i \in 1..Len(seq) : seq[i] = v })

\* The slot ids of the free list, of the sessions a connection has
\* received from a Fetch and not yet given back, and of the other sessions.
FreeSet == Range(freeMaps)
BoundSet ==
    { k \in DOMAIN appCtxs :
        \E c \in Conns : \/ conn[c].pc = "replied" /\ conn[c].out.AppContext = appCtxs[k]
                         \/ conn[c].pc = "connected" /\ conn[c].ctx = appCtxs[k] }
PendingSet == DOMAIN appCtxs \ BoundSet

\* The connections listed for a user (Lookup).
Lookup(user) == IF user \in DOMAIN userMap THEN Range(userMap[user]) ELSE {}

\* The step in which the registry handles a Get of some user, with and
\* without a free id.
GetStep == \E u \in Users : AppContextGet(ServeHTTPRequest(u))
GetIssues == GetStep /\ ~PoolExhausted(freeMaps)
GetExhausted == GetStep /\ PoolExhausted(freeMaps)

\* The registry's tables are left as they were.
RegistryUnchanged == UNCHANGED <<freeMaps, authenticatedMap, appCtxs, userMap>>

\* The step in which the registry handles the sweeper's CleanUp.
CleanUpStep == AppContextCleanUp(CleanUpCheckRequest)

\* The session under id k was acquired more than MaxRequestLife before now.
Aged(k) == k \in DOMAIN authenticatedMap /\ authenticatedMap[k] + MaxRequestLife < now

\* The session under id k and its slot are what they were: the entry and
\* its timestamp are kept and the id was not appended to the free list.
SlotKept(k) ==
    /\ k \in DOMAIN appCtxs' /\ appCtxs'[k] = appCtxs[k]
    /\ k \in DOMAIN authenticatedMap' /\ authenticatedMap'[k] = authenticatedMap[k]
    /\ Count(freeMaps', k) = Count(freeMaps, k)

\* The connections that hold a session of user u: received from a Fetch,
\* set as the connection's context, or on its way back in a Finished.
BoundConns(u) ==
    { c \in Conns :
        \/ conn[c].pc = "replied" /\ ~conn[c].out.Exhausted /\ conn[c].out.AppContext.User = u
        \/ conn[c].pc = "connected" /\ ~conn[c].ctx.IsNil /\ conn[c].ctx.User = u
        \/ conn[c].pc = "closing" /\ ~conn[c].req.AppContext.IsNil
                                  /\ conn[c].req.AppContext.User = u }

\* The step in which ServeHTTP is admitted, and the one in which it is
\* turned away.
Admitted(r, u) == ServeHTTP(r, u) /\ ~PoolExhausted(freeMaps)
TurnedAway(r, u) == ServeHTTP(r, u) /\ PoolExhausted(freeMaps)

\* A header that is a non-empty run of decimal digits.
WellFormedID(h) ==
    /\ h # <<>>
    /\ \A i \in 1..Len(h) : h[i] \in {"0", "1", "2", "3", "4", "5", "6", "7", "8", "9"}

\* ----------------------------------------------------------------- claims

\* C1: the number of sessions issued and not yet released or reclaimed
\* never exceeds the ceiling MaxRequests. (Counted by the session table,
\* which holds at most one session per id.)
C1_OutstandingWithinCeiling == Cardinality(DOMAIN appCtxs) <= MaxRequests

\* C2: a Get on an empty free list replies Exhausted, leaves the free list
\* and the three tables unchanged, and the registry goes on handling
\* requests.
C2_ExhaustedGetIsHarmless ==
    [][GetExhausted =>
         /\ resCtx'.Exhausted
         /\ RegistryUnchanged
         /\ actor' = "running"]_vars

\* C3: no slot is double-allocated: a Get never issues an id that a session
\* of the table still holds, and no id is held twice in the free list.
C3_NoDoubleAllocation ==
    [][GetIssues =>
         /\ NextID(freeMaps) \notin DOMAIN appCtxs
         /\ NoDuplicates(freeMaps')]_vars

\* C4: in every reachable state the free, pending and bound slot sets are
\* pairwise disjoint and their union is 1..MaxRequests.
C4_SlotPartition ==
    /\ FreeSet \cap PendingSet = {}
    /\ FreeSet \cap BoundSet = {}
    /\ PendingSet \cap BoundSet = {}
    /\ FreeSet \cup PendingSet \cup BoundSet = 1..MaxRequests

\* C5: every session a successful Get returns carries a slot id in
\* 1..MaxRequests.
C5_IssuedIdInRange ==
    (resCtx.Type = Get /\ ~resCtx.Exhausted) => resCtx.AppContext.ID \in 1..MaxRequests

\* C6: a Fetch that finds the session of its slot id returns it, binds the
\* slot and puts the presented connection into the owning user's fan-out
\* set.
C6_BindInsertsConnection ==
    \A c \in Conns :
        (conn[c].pc = "replied" /\ ~conn[c].out.Exhausted) =>
            /\ conn[c].out.AppContext.ID = conn[c].out.ID
            /\ c \in Lookup(conn[c].out.AppContext.User)

\* C7: a Fetch on a slot id with no pending session (never acquired,
\* released, reclaimed, or already bound to another connection) returns
\* NotFound and leaves the registry unchanged.
C7_BindWithoutPendingIsNotFound ==
    [][\A c \in Conns :
         (AppContextFetch(c) /\ conn[c].req.ID \notin PendingSet) =>
             /\ conn'[c].out.Exhausted
             /\ RegistryUnchanged]_vars

\* C8: a Finished for an outstanding session puts its slot back into the
\* free list, removes the session, and removes the connection from the
\* owning user's fan-out set, so that a following Lookup does not hold it.
C8_ReleaseFreesAndPrunes ==
    [][\A c \in Conns :
         (/\ AppContextFinished(c)
          /\ ~conn[c].req.AppContext.IsNil
          /\ conn[c].req.AppContext.ID \in DOMAIN appCtxs) =>
             /\ actor' = "running"
             /\ conn[c].req.AppContext.ID \in Range(freeMaps')
             /\ conn[c].req.AppContext.ID \notin DOMAIN appCtxs'
             /\ c \notin Range(userMap'[conn[c].req.AppContext.User])]_vars

\* C9: Release is idempotent: a Finished for a slot that holds no session
\* any more (released or reclaimed before) leaves the registry unchanged.
C9_ReleaseIdempotent ==
    [][\A c \in Conns :
         (/\ AppContextFinished(c)
          /\ ~conn[c].req.AppContext.IsNil
          /\ conn[c].req.AppContext.ID \notin DOMAIN appCtxs) =>
             RegistryUnchanged]_vars

\* The registry is as one Get of user u on the initial pool leaves the
\* code's tables, and connection c gives back the session that Get issued.
AfterAcquireBind(u, c) ==
    /\ freeMaps = Tail(InitFreeMaps)
    /\ DOMAIN appCtxs = {Head(InitFreeMaps)}
    /\ DOMAIN authenticatedMap = {Head(InitFreeMaps)}
    /\ DOMAIN userMap = {u}
    /\ Len(userMap[u]) = 1
    /\ conn[c].req.AppContext = appCtxs[Head(InitFreeMaps)]
    /\ appCtxs[Head(InitFreeMaps)].User = u

\* C10: from the initial state, Acquire, Bind, Release on one slot leaves
\* the registry indistinguishable from the initial one: the free list holds
\* what it held, no session or timestamp remains, and the user's fan-out
\* set holds no entry.
C10_RoundTripRestoresInit ==
    [][\A c \in Conns, u \in Users :
         (AppContextFinished(c) /\ AfterAcquireBind(u, c)) =>
             /\ actor' = "running"
             /\ \A k \in Range(InitFreeMaps) : Count(freeMaps', k) = Count(InitFreeMaps, k)
             /\ Len(freeMaps') = Len(InitFreeMaps)
             /\ appCtxs' = << >>
             /\ authenticatedMap' = << >>
             /\ Len(userMap'[u]) = 0]_vars

\* C11: a CleanUp never frees a session that a streaming connection has
\* been bound to, whatever its age: the session stays in the table and its
\* id stays out of the free list.
C11_ReclaimSparesBound ==
    [][CleanUpStep => \A k \in BoundSet : SlotKept(k)]_vars

\* C12: a CleanUp at time now frees exactly the pending sessions whose
\* acquisition time plus MaxRequestLife is strictly before now, and a
\* pending session of at most that age keeps its slot, timestamp and entry.
C12_ReclaimFreesAgedPending ==
    [][CleanUpStep =>
         /\ DOMAIN appCtxs \ DOMAIN appCtxs' = { k \in PendingSet : Aged(k) }
         /\ \A k \in PendingSet : ~Aged(k) => SlotKept(k)]_vars

\* C13: in every reachable state, Lookup for a user holds exactly the
\* connections bound for that user and not yet released: none extra, none
\* missing, no nil entry and none twice.
C13_LookupIsBoundConnections ==
    \A u \in Users :
        /\ Lookup(u) = BoundConns(u)
        /\ u \in DOMAIN userMap => NoDuplicates(userMap[u])

\* C14: every entry of the user fan-out index is a connection whose
\* session is bound and still in the session table: no entry stands for a
\* session that was only acquired, released or reclaimed.
C14_IndexHoldsOnlyBound ==
    \A u \in DOMAIN userMap :
        \A i \in 1..Len(userMap[u]) :
            /\ userMap[u][i] \in BoundConns(u)
            /\ \E k \in BoundSet : appCtxs[k].User = u

C16_ExhaustedIsTurnedAway ==
    [][\A r \in Routes, u \in Users :
         TurnedAway(r, u) =>
             /\ res'.status = StatusTooManyRequests
             /\ res'.handler = "not invoked"
             /\ resCtx'.AppContext.IsNil
             /\ RegistryUnchanged]_vars

\* A request was turned away with the 429 error.
C16_Witness ==
    /\ resCtx.Type = Get /\ resCtx.Exhausted
    /\ res.status = StatusTooManyRequests

\* C17: after an admission the id in the response header is the id of the
\* session just acquired, which is pending when the handler has ended; and
\* a pending session stays in the table as it is in every step but the
\* sweeper's CleanUp (a handshake that binds it leaves it there).
C17_AdmittedSessionStaysPending ==
    [][/\ \A r \in Routes, u \in Users :
            Admitted(r, u) =>
                /\ Atoi(res'.header).ok
                /\ Atoi(res'.header).val \in DOMAIN appCtxs'
                /\ appCtxs'[Atoi(res'.header).val] = resCtx'.AppContext
       /\ ~CleanUpStep =>
            \A k \in PendingSet : k \in DOMAIN appCtxs' /\ appCtxs'[k] = appCtxs[k]]_vars

\* C18: a handshake whose cuttle-ai-context-id header is missing or is no
\* integer is rejected by onConnect with an error: no request is built for
\* the registry and the registry's tables are unchanged.
C18_BadHeaderIsRejected ==
    [][\A c \in Conns, h \in HandshakeHeaders :
         (OnConnect(c, h) /\ ~WellFormedID(h)) =>
             /\ conn'[c].pc = "rejected"
             /\ conn'[c].req = NoReply
             /\ RegistryUnchanged]_vars

\* A handshake was rejected for its header.
C18_Witness == \E c \in Conns : conn[c].pc = "rejected"

\* C19: when the Fetch of onConnect is answered not found, onConnect
\* returns an error: the connection is rejected, no session is set on it,
\* and it is in no user's fan-out list.
C19_NotFoundIsRejected ==
    [][\A c \in Conns :
         (OnConnectReply(c) /\ conn[c].out.Exhausted) =>
             /\ process' = "up"
             /\ conn'[c].pc = "rejected"
             /\ conn'[c].ctx.IsNil
             /\ \A u \in DOMAIN userMap' : c \notin Range(userMap'[u])]_vars

\* C20: an admitted send-notification request gets the "sending
\* notifications" response: once its handler is no longer waiting for the
\* registry, the response has been written.
C20_NotificationAnswered ==
    (/\ res.route = "/notification/send"
     /\ res.handler \notin {"not invoked", "waiting"}) =>
        res.body = SendingNotifications

\* C21: the registry goroutine never crashes or stops: after any sequence
\* of Get, Fetch, Finished and CleanUp messages it is in its receive loop.
C21_ActorKeepsRunning == actor = "running"

\* C22: every caller that waits on its Out channel gets a reply. A caller
\* that waits while the registry goroutine has left its loop waits for
\* ever, since nothing starts the goroutine again: so while the process is
\* up, no connection waits for a Fetch reply with the registry stopped.
C22_WaitingCallerIsServed ==
    \A c \in Conns :
        (ProcessAlive /\ conn[c].pc = "fetching") => actor = "running"

\* C23: every session that is acquired and never bound is returned to the
\* free list by a later CleanUp, whatever other requests occur. A pending
\* session held while the registry goroutine has left its loop is never
\* returned: so while the process is up, no session is pending with the
\* registry stopped.
C23_PendingIsReclaimable ==
    (ProcessAlive /\ PendingSet # {}) => actor = "running"

\* C24: a Get that issues an id leaves the user fan-out index unchanged
\* for every user: Lookup of the acquiring user is what it was.
C24_AcquireLeavesIndex ==
    [][GetIssues =>
         /\ userMap' = userMap
         /\ \A u \in Users : Lookup(u)' = Lookup(u)]_vars

\* C25: capacity is recovered after exhaustion: once a Get has been
\* answered Exhausted, a Finished for an outstanding slot lets the next Get
\* succeed. A registry that has left its loop takes neither the Finished
\* nor the Get: so while the process is up and sessions are outstanding,
\* the registry that answered Exhausted is still receiving.
C25_CapacityRecovered ==
    (ProcessAlive /\ resCtx.Type = Get /\ resCtx.Exhausted /\ DOMAIN appCtxs # {}) =>
        actor = "running"

\* C26: in every reachable state authenticatedMap and appCtxs have the
\* same keys, and no key of either is held in the free list.
C26_TablesAgreeAndNotFree ==
    /\ DOMAIN authenticatedMap = DOMAIN appCtxs
    /\ (DOMAIN authenticatedMap \cup DOMAIN appCtxs) \cap FreeSet = {}

\* The step in which the registry handles the Finished of connection c
\* for a session.
FinishedOf(c) == AppContextFinished(c) /\ ~conn[c].req.AppContext.IsNil

\* Slot j has the entries it had in the session and timestamp tables.
SlotEntriesKept(j) ==
    /\ (j \in DOMAIN appCtxs) = (j \in DOMAIN appCtxs')
    /\ j \in DOMAIN appCtxs => appCtxs'[j] = appCtxs[j]
    /\ (j \in DOMAIN authenticatedMap) = (j \in DOMAIN authenticatedMap')
    /\ j \in DOMAIN authenticatedMap => authenticatedMap'[j] = authenticatedMap[j]

\* C27: a Finished for a session of user U with slot k changes only k's
\* place in the free list, k's entries in the two tables and U's list:
\* the free list is what it was or that with k appended, every other
\* slot's entries and every other user's list are unchanged, and U's list
\* loses at most one entry, the released connection.
C27_ReleaseFrame ==
    [][\A c \in Conns :
         FinishedOf(c) =>
             LET k == conn[c].req.AppContext.ID
                 U == conn[c].req.AppContext.User
             IN
             /\ freeMaps' \in {freeMaps, Append(freeMaps, k)}
             /\ \A j \in (DOMAIN appCtxs \cup DOMAIN authenticatedMap) \ {k} : SlotEntriesKept(j)
             /\ DOMAIN appCtxs' \subseteq DOMAIN appCtxs
             /\ DOMAIN authenticatedMap' \subseteq DOMAIN authenticatedMap
             /\ DOMAIN userMap' = DOMAIN userMap
             /\ \A v \in DOMAIN userMap \ {U} : userMap'[v] = userMap[v]
             /\ U \in DOMAIN userMap =>
                    \/ userMap'[U] = userMap[U]
                    \/ /\ Len(userMap'[U]) = Len(userMap[U]) - 1
                       /\ Count(userMap'[U], c) = Count(userMap[U], c) - 1]_vars

\* A Finished for slot 0 was handled while another slot held a session:
\* no time has passed, so the 0 at the end of the free list was appended
\* by the Finished.
C27_Witness ==
    /\ \E c \in Conns : conn[c].pc = "closed"
    /\ now = 0
    /\ Len(freeMaps) > 0
    /\ freeMaps[Len(freeMaps)] = 0
    /\ 0 \notin DOMAIN appCtxs
    /\ DOMAIN appCtxs # {}

====
